---- MODULE Spec2Model ----
(***************************************************************************)
(* Model of jira_downloader.py: the count probe, the parallel paginator    *)
(* (ThreadPoolExecutor + as_completed merge loop), the history filter and  *)
(* the output step of main().                                              *)
(***************************************************************************)
EXTENDS Integers, Sequences, FiniteSets, TLC

VARIABLES
    pc,          \* position of main(): probe, pool, as_completed, merge, unwind, filter,
                 \* write, done, aborted
    threads,     \* cfg.get('threads', 4)
    fcfg,        \* fcfg['fields']: the field descriptors
    initial,     \* initial = fetch_issues_slice(..., start_at=0, max_results=1)
    total,       \* total = initial.get('total', 0)
    offsets,     \* offsets = list(range(0, total, max_per_request))
    tasks,       \* the submitted calls, one per future: arguments, state, result
    futures,     \* the dict future -> start built at submission
    work_queue,  \* the executor's FIFO queue of futures not yet picked up by a worker
    finished_futures, \* the finished futures not yet handed to the merge loop, oldest first
    found_finished,   \* as_completed's set of the futures it found finished when it began
    call,             \* a call of one function on its own: its arguments and results
    yielded,     \* the futures as_completed has already handed to the merge loop
    all_issues,  \* the aggregate list
    requests,    \* the outbound curl calls issued so far, in order
    log,         \* the lines printed so far (as a set of events)
    output,      \* the output file: written flag and the issue list dumped into it
    exit         \* how main() ended: "", "ok", "sys.exit(1)" or the uncaught exception

vars == <<call, pc, threads, fcfg, initial, total, offsets, tasks, futures, work_queue, finished_futures, found_finished, yielded,
          all_issues, requests, log, output, exit>>

-----------------------------------------------------------------------------
(* Bounds of the model *)

MaxPages == 3
MaxThreads == 2

(* max_per_request = 1000 *)
max_per_request == 1000

Min(a, b) == IF a < b THEN a ELSE b

(* The totals a probe may report: the boundaries of the ceiling division and *)
(* one total in the middle of each page count up to MaxPages.                *)
Totals ==
    {0, 1, max_per_request, max_per_request + 1}
        \cup {k * max_per_request - max_per_request \div 2 : k \in 1..MaxPages}

-----------------------------------------------------------------------------
(* Field descriptors of fields_config.json *)

FieldConfigs ==
    { << [id |-> "summary", download |-> TRUE, downloadHistory |-> FALSE],
         [id |-> "status",  download |-> TRUE, downloadHistory |-> FALSE] >>,
      << [id |-> "summary", download |-> TRUE, downloadHistory |-> FALSE],
         [id |-> "status",  download |-> TRUE, downloadHistory |-> TRUE] >> }

(* mutant of expand_of: the download flag decides instead of downloadHistory *)
expand_of_download(fc) ==
    IF \E i \in 1..Len(fc) : fc[i].download THEN "changelog" ELSE ""

(* expand = 'changelog' if any(f.get('downloadHistory') ...) else '' *)
expand_of(fc) ==
    IF \E i \in 1..Len(fc) : fc[i].downloadHistory THEN "changelog" ELSE ""

(* history_fields = {f['id'] for f in fcfg['fields'] if f.get('downloadHistory')} *)
history_fields_of(fc) ==
    {fc[i].id : i \in {j \in 1..Len(fc) : fc[j].downloadHistory}}

-----------------------------------------------------------------------------
(* Lists of issues.  A list of issues served by the server is held as the    *)
(* sequence of the windows of the server's result set that were appended to  *)
(* it; a window names its first row, its number of rows, whether the rows    *)
(* were served with their changelog and, once step 7 has gone over them, the *)
(* history fields they were filtered by.  list_items below gives the list    *)
(* element by element.                                                       *)

Rows(from, count, expand) ==
    [from |-> from, count |-> count, expand |-> expand,
     filtered |-> FALSE, history_fields |-> {}]

EmptyList == << >>

(* a list holding the rows of one window *)
ListOf(w) == IF w.count = 0 THEN EmptyList ELSE <<w>>

(* len(lst) *)
RECURSIVE list_len(_)
list_len(lst) ==
    IF lst = << >> THEN 0 ELSE Head(lst).count + list_len(Tail(lst))

(* lst.extend(more) *)
list_extend(lst, more) == lst \o more

(* JSON values as the code sees them.  kind "none" is Python's None.         *)

NoneData ==
    [kind |-> "none", keys |-> {}, totalIsInt |-> FALSE, total |-> 0,
     issuesSized |-> FALSE, issues |-> EmptyList]

(* a non-empty JSON object with a "total" and an "issues" list *)
SearchResult(n, rows) ==
    [kind |-> "dict", keys |-> {"total", "issues"}, totalIsInt |-> TRUE, total |-> n,
     issuesSized |-> TRUE, issues |-> rows]

(* a non-empty JSON object without "total" and "issues" (Jira's error body) *)
ErrorBody ==
    [kind |-> "dict", keys |-> {"errorMessages"}, totalIsInt |-> FALSE, total |-> 0,
     issuesSized |-> FALSE, issues |-> EmptyList]

(* the empty JSON object *)
EmptyBody ==
    [kind |-> "dict", keys |-> {}, totalIsInt |-> FALSE, total |-> 0,
     issuesSized |-> FALSE, issues |-> EmptyList]

(* a non-empty JSON array *)
ListBody ==
    [kind |-> "list", keys |-> {}, totalIsInt |-> FALSE, total |-> 0,
     issuesSized |-> FALSE, issues |-> EmptyList]

(* a JSON object whose "total" is not an integer (null) *)
NullTotalBody ==
    [kind |-> "dict", keys |-> {"total", "issues"}, totalIsInt |-> FALSE, total |-> 0,
     issuesSized |-> TRUE, issues |-> EmptyList]

(* a JSON object whose "issues" is null *)
NullIssuesBody ==
    [kind |-> "dict", keys |-> {"total", "issues"}, totalIsInt |-> TRUE, total |-> 0,
     issuesSized |-> FALSE, issues |-> EmptyList]

(* Python truthiness of a decoded value: None and empty containers are falsy *)
Truthy(d) ==
    /\ d.kind # "none"
    /\ ~(d.kind = "dict" /\ d.keys = {})

(* 'issues' in data *)
HasIssues(d) == "issues" \in d.keys

-----------------------------------------------------------------------------
(* The server's rows.  An issue is a JSON object: its key, and, when the      *)
(* server attached one, a "changelog" object holding the "histories" list.   *)
(* With expand=changelog most rows have an empty history; some rows of every *)
(* half page carry change entries, and one row comes without a changelog.    *)

Item(f) == [field |-> f]

HistoryShapes ==
    << << [id |-> 1, items |-> <<Item("status")>>] >>,
       << [id |-> 1, items |-> <<Item("summary"), Item("status")>>],
          [id |-> 2, items |-> <<Item("assignee")>>] >> >>

ShapePeriod == max_per_request \div 2

ServerIssue(i, expand) ==
    IF expand # "changelog" \/ i % ShapePeriod = 2
    THEN [id |-> i]
    ELSE IF i % ShapePeriod < 2
    THEN [id |-> i, changelog |-> [histories |-> HistoryShapes[(i % ShapePeriod) + 1]]]
    ELSE [id |-> i, changelog |-> [histories |-> << >>]]

(* the rows a page request (start_at, max_results) gets from a static result *)
(* set of n rows                                                             *)
ExpectedCount(n, start_at, max_results) ==
    IF n - start_at < 0 THEN 0 ELSE Min(max_results, n - start_at)

ServerRows(n, start_at, max_results, expand) ==
    ListOf(Rows(start_at, ExpectedCount(n, start_at, max_results), expand))

-----------------------------------------------------------------------------
(* What one run of curl can do: fail to launch (subprocess.run raises        *)
(* OSError), exit non-zero (CalledProcessError under check=True), or exit 0   *)
(* with a body that is or is not JSON.                                       *)

CurlLaunchFailure == [launched |-> FALSE, returncode |-> 0, json |-> FALSE, body |-> NoneData]
CurlNonZero       == [launched |-> TRUE,  returncode |-> 7, json |-> FALSE, body |-> NoneData]
CurlGarbage       == [launched |-> TRUE,  returncode |-> 0, json |-> FALSE, body |-> NoneData]
CurlJson(d)       == [launched |-> TRUE,  returncode |-> 0, json |-> TRUE,  body |-> d]

(* fetch_issues_slice: the value returned, or the exception that escapes *)
fetch_issues_slice(curl) ==
    IF ~curl.launched THEN [raised |-> "OSError", value |-> NoneData]
    ELSE IF curl.returncode # 0 THEN [raised |-> "", value |-> NoneData]
    ELSE IF ~curl.json THEN [raised |-> "", value |-> NoneData]
    ELSE [raised |-> "", value |-> curl.body]

(* the request fetch_issues_slice sends *)
Request(start_at, max_results, expand) ==
    [startAt |-> start_at, maxResults |-> max_results, expand |-> expand]

(* range(start, stop, step) for step > 0 *)
RECURSIVE PyRange(_, _, _)
PyRange(start, stop, step) ==
    IF start >= stop THEN <<>>
    ELSE <<start>> \o PyRange(start + step, stop, step)

-----------------------------------------------------------------------------
(* Step 7: the history filter *)

(* d.get(key, default) *)
get(d, key, default) == IF key \in DOMAIN d THEN d[key] ELSE default

(* mutants of keep_items: every item is kept; the first requested item is   *)
(* lost                                                                      *)
keep_items_all(items, history_fields) == items

keep_items_rest(items, history_fields) ==
    LET kept == SelectSeq(items, LAMBDA item :
                    "field" \in DOMAIN item /\ item.field \in history_fields)
    IN  IF kept # << >> THEN Tail(kept) ELSE kept

(* [item for item in hist.get('items', []) if item.get('field') in history_fields] *)
keep_items(items, history_fields) ==
    SelectSeq(items, LAMBDA item :
        "field" \in DOMAIN item /\ item.field \in history_fields)

(* the loop over original: an entry is kept, with its items replaced, iff some item remains *)
RECURSIVE filter_histories(_, _)
filter_histories(original, history_fields) ==
    IF original = <<>> THEN <<>>
    ELSE LET hist  == Head(original)
             items == keep_items(get(hist, "items", <<>>), history_fields)
             rest  == filter_histories(Tail(original), history_fields)
         IN  IF items # <<>>
             THEN <<[hist EXCEPT !.items = items]>> \o rest
             ELSE rest

(* issue['changelog']['histories'] = filtered *)
set_histories(changelog, filtered) ==
    [k \in DOMAIN changelog \cup {"histories"} |->
        IF k = "histories" THEN filtered ELSE changelog[k]]

(* mutant of filter_issue: an issue without a changelog is given an empty one *)
filter_issue_adding(issue, history_fields) ==
    IF "changelog" \in DOMAIN issue
    THEN [issue EXCEPT !.changelog =
            set_histories(@, filter_histories(get(@, "histories", <<>>), history_fields))]
    ELSE [k \in DOMAIN issue \cup {"changelog"} |->
            IF k = "changelog" THEN [histories |-> << >>] ELSE issue[k]]

(* the body of "for issue in all_issues" *)
filter_issue(issue, history_fields) ==
    IF "changelog" \in DOMAIN issue
    THEN [issue EXCEPT !.changelog =
            set_histories(@, filter_histories(get(@, "histories", <<>>), history_fields))]
    ELSE issue

(* for issue in all_issues: ..., on a list given element by element *)
filter_issues(issues, history_fields) ==
    [k \in 1..Len(issues) |-> filter_issue(issues[k], history_fields)]

(* if expand: ... for issue in all_issues: ...  (every row of every window  *)
(* goes through filter_issue)                                                *)
history_filter(issues, expand, history_fields) ==
    IF expand # ""
    THEN [k \in 1..Len(issues) |->
            [issues[k] EXCEPT !.filtered = TRUE, !.history_fields = history_fields]]
    ELSE issues

(* the rows of a window, and the elements of a list *)
window_items(w) ==
    [i \in 1..w.count |->
        LET issue == ServerIssue(w.from + i - 1, w.expand)
        IN  IF w.filtered THEN filter_issue(issue, w.history_fields) ELSE issue]

RECURSIVE list_items(_)
list_items(lst) ==
    IF lst = << >> THEN << >>
    ELSE window_items(Head(lst)) \o list_items(Tail(lst))

-----------------------------------------------------------------------------
(* Log events *)

Event(level, msg, start, n) == [level |-> level, msg |-> msg, start |-> start, n |-> n]

ProbeFailed   == Event("ERROR", "initial request failed", 0, 0)
TotalIs(n)    == Event("INFO", "total", 0, n)
PageInfo(s, n) == Event("INFO", "page fetched", s, n)
PageWarn(s)   == Event("WARN", "page has a problem", s, 0)
Filtering     == Event("INFO", "history filtering", 0, 0)
AllFetched(n) == Event("INFO", "all fetched", 0, n)
Saved         == Event("INFO", "saved", 0, 0)
SaveFailed    == Event("ERROR", "save failed", 0, 0)

-----------------------------------------------------------------------------
(* State *)

expand         == expand_of(fcfg)
history_fields == history_fields_of(fcfg)

NoResult == [raised |-> "", value |-> NoneData]
NoCall   == [op |-> "none"]
NoOutput == [written |-> FALSE, issues |-> EmptyList]

Task(start_at, max_results) ==
    [start_at |-> start_at, max_results |-> max_results, state |-> "queued",
     outcome |-> "", result |-> NoResult]

Running == {f \in DOMAIN tasks : tasks[f].state = "running"}
Done    == {f \in DOMAIN tasks : tasks[f].state = "done"}

(* main() has not made its first request *)
Start ==
    /\ pc = "probe"
    /\ initial = NoResult
    /\ total = 0
    /\ offsets = <<>>
    /\ tasks = <<>>
    /\ futures = <<>>
    /\ work_queue = <<>>
    /\ finished_futures = <<>>
    /\ found_finished = {}
    /\ yielded = {}
    /\ all_issues = EmptyList
    /\ requests = <<>>
    /\ log = {}
    /\ output = NoOutput
    /\ exit = ""

Init ==
    /\ Start
    /\ threads \in 0..MaxThreads
    /\ fcfg \in FieldConfigs
    /\ call = NoCall

-----------------------------------------------------------------------------
(* Step 5: the count probe, and the offsets computed from its total *)

ProbeCurlResults ==
    {CurlLaunchFailure, CurlNonZero, CurlGarbage,
     CurlJson(ErrorBody), CurlJson(EmptyBody), CurlJson(ListBody), CurlJson(NullTotalBody)}
        \cup {CurlJson(SearchResult(n, ServerRows(n, 0, 1, expand))) : n \in Totals}

(* initial.get('total', 0) *)
get_total(d) == IF "total" \in d.keys THEN d.total ELSE 0

(* mutants of compute_offsets: floor division for the page count; a stop    *)
(* value that is included                                                    *)
compute_offsets_floor(n) ==
    PyRange(0, (n \div max_per_request) * max_per_request, max_per_request)

compute_offsets_inclusive(n) == PyRange(0, n + 1, max_per_request)

(* offsets = list(range(0, total, max_per_request)) *)
compute_offsets(n) == PyRange(0, n, max_per_request)

Abort(reason) ==
    /\ pc' = "aborted"
    /\ exit' = reason

(* mutant of probe_request: the probe asks for a whole page *)
probe_request_page(e) == Request(0, max_per_request, e)

(* the count probe: start_at=0, max_results=1 *)
probe_request(e) == Request(0, 1, e)

Probe(curl) ==
    /\ pc = "probe"
    /\ requests' = Append(requests, probe_request(expand))
    /\ initial' = fetch_issues_slice(curl)
    /\ IF initial'.raised # ""
       THEN /\ Abort(initial'.raised)
            /\ UNCHANGED <<total, offsets, log>>
       ELSE IF ~Truthy(initial'.value)
       THEN /\ Abort("sys.exit(1)")
            /\ log' = log \cup {ProbeFailed}
            /\ UNCHANGED <<total, offsets>>
       ELSE IF initial'.value.kind # "dict"
       THEN /\ Abort("AttributeError")
            /\ UNCHANGED <<total, offsets, log>>
       ELSE IF "total" \in initial'.value.keys /\ ~initial'.value.totalIsInt
       THEN /\ Abort("TypeError")
            /\ UNCHANGED <<total, offsets, log>>
       ELSE /\ total' = get_total(initial'.value)
            /\ log' = log \cup {TotalIs(total')}
            /\ offsets' = compute_offsets(total')
            /\ pc' = "pool"
            /\ exit' = ""
    /\ UNCHANGED <<call, threads, fcfg, tasks, futures, work_queue, finished_futures, found_finished, yielded, all_issues, output>>

-----------------------------------------------------------------------------
(* Step 6: the pool, the workers and the merge loop *)

(* ThreadPoolExecutor(max_workers=threads) and the dict comprehension that   *)
(* submits one fetch_issues_slice call per offset                            *)
Submit ==
    /\ pc = "pool"
    /\ IF threads <= 0
       THEN /\ Abort("ValueError")
            /\ UNCHANGED <<tasks, futures, work_queue>>
       ELSE /\ tasks' = [f \in 1..Len(offsets) |-> Task(offsets[f], max_per_request)]
            /\ futures' = [f \in 1..Len(offsets) |-> offsets[f]]
            /\ work_queue' = [f \in 1..Len(offsets) |-> f]
            /\ pc' = "as_completed"
            /\ exit' = ""
    /\ UNCHANGED <<call, threads, fcfg, initial, total, offsets, finished_futures, found_finished, yielded, all_issues,
                   requests, log, output>>

(* mutant of worker_available: a thread per submitted call *)
worker_available_unbounded(max_workers, running) == TRUE

(* a worker thread is free to take the next work item *)
worker_available(max_workers, running) == Cardinality(running) < max_workers

(* mutant of dequeue: the call taken stays in the queue *)
dequeue_keep(queue) == queue

(* the work queue once its head has been taken *)
dequeue(queue) == Tail(queue)

(* a pool worker takes the oldest queued call and runs fetch_issues_slice up *)
(* to the curl invocation                                                    *)
WorkerStart ==
    /\ pc \in {"as_completed", "merge", "unwind"}
    /\ work_queue # <<>>
    /\ worker_available(threads, Running)
    /\ LET f == Head(work_queue) IN
        /\ tasks' = [tasks EXCEPT ![f].state = "running"]
        /\ requests' = Append(requests,
                              Request(tasks[f].start_at, tasks[f].max_results, expand))
    /\ work_queue' = dequeue(work_queue)
    /\ UNCHANGED <<call, pc, threads, fcfg, initial, total, offsets, futures, finished_futures, found_finished, yielded,
                   all_issues,
                   log, output, exit>>

CurlOutcome(curl) ==
    IF ~curl.launched THEN "launch failure"
    ELSE IF curl.returncode # 0 THEN "non-zero exit"
    ELSE IF ~curl.json THEN "not json"
    ELSE "json"

(* the response for a page after the last row of the result set was deleted  *)
(* (between the probe and the fetch); a page the deletion leaves whole is    *)
(* served as before                                                          *)
ShrunkResults(n, start_at, max_results) ==
    IF n > 0 /\ ExpectedCount(n - 1, start_at, max_results)
                   # ExpectedCount(n, start_at, max_results)
    THEN {CurlJson(SearchResult(n - 1, ServerRows(n - 1, start_at, max_results, expand)))}
    ELSE {}

(* the response for a page after a row was added to the result set (between  *)
(* the probe and the fetch); a page the addition leaves as it was is served  *)
(* as before                                                                 *)
GrownResults(n, start_at, max_results) ==
    IF ExpectedCount(n + 1, start_at, max_results)
           # ExpectedCount(n, start_at, max_results)
    THEN {CurlJson(SearchResult(n + 1, ServerRows(n + 1, start_at, max_results, expand)))}
    ELSE {}

(* what curl can return for the page (start_at, max_results) of a result set *)
(* of n rows                                                                 *)
PageCurlResults(n, start_at, max_results) ==
    {CurlLaunchFailure, CurlNonZero, CurlGarbage,
     CurlJson(ErrorBody), CurlJson(NullIssuesBody),
     CurlJson(SearchResult(n, ServerRows(n, start_at, max_results, expand)))}
        \cup ShrunkResults(n, start_at, max_results)
        \cup GrownResults(n, start_at, max_results)

(* mutant of WorkerFinish: the worker appends its page to the aggregate itself *)
WorkerFinish_appending(f, curl) ==
    /\ f \in Running
    /\ tasks' = [tasks EXCEPT ![f].state = "done",
                              ![f].outcome = CurlOutcome(curl),
                              ![f].result = fetch_issues_slice(curl)]
    /\ finished_futures' = IF pc = "unwind" THEN finished_futures
                                              ELSE Append(finished_futures, f)
    /\ all_issues' = list_extend(all_issues, fetch_issues_slice(curl).value.issues)
    /\ UNCHANGED <<call, pc, threads, fcfg, initial, total, offsets, futures, work_queue,
                   found_finished, yielded,
                   requests, log, output, exit>>

(* curl returns and fetch_issues_slice ends: the future is done *)
WorkerFinish(f, curl) ==
    /\ f \in Running
    /\ tasks' = [tasks EXCEPT ![f].state = "done",
                              ![f].outcome = CurlOutcome(curl),
                              ![f].result = fetch_issues_slice(curl)]
    /\ finished_futures' = IF pc = "unwind" THEN finished_futures
                                              ELSE Append(finished_futures, f)
    /\ UNCHANGED <<call, pc, threads, fcfg, initial, total, offsets, futures, work_queue,
                   found_finished, yielded,
                   all_issues, requests, log, output, exit>>

(* mutants of merge_one: the page replaces the aggregate instead of          *)
(* extending it; a failed page is dropped without a warning; the page is     *)
(* appended twice                                                            *)
merge_one_twice(issues, lg, start, result) ==
    IF result.raised # ""
    THEN [raised |-> result.raised, all_issues |-> issues, log |-> lg]
    ELSE IF Truthy(result.value) /\ HasIssues(result.value)
    THEN IF ~result.value.issuesSized
         THEN [raised |-> "TypeError", all_issues |-> issues, log |-> lg]
         ELSE [raised |-> "",
               all_issues |-> list_extend(list_extend(issues, result.value.issues),
                                          result.value.issues),
               log |-> lg \cup {PageInfo(start, list_len(result.value.issues))}]
    ELSE [raised |-> "", all_issues |-> issues, log |-> lg \cup {PageWarn(start)}]

merge_one_overwrite(issues, lg, start, result) ==
    IF result.raised # ""
    THEN [raised |-> result.raised, all_issues |-> issues, log |-> lg]
    ELSE IF Truthy(result.value) /\ HasIssues(result.value)
    THEN IF ~result.value.issuesSized
         THEN [raised |-> "TypeError", all_issues |-> issues, log |-> lg]
         ELSE [raised |-> "",
               all_issues |-> result.value.issues,
               log |-> lg \cup {PageInfo(start, list_len(result.value.issues))}]
    ELSE [raised |-> "", all_issues |-> issues, log |-> lg \cup {PageWarn(start)}]

merge_one_silent(issues, lg, start, result) ==
    IF result.raised # ""
    THEN [raised |-> result.raised, all_issues |-> issues, log |-> lg]
    ELSE IF Truthy(result.value) /\ HasIssues(result.value)
    THEN IF ~result.value.issuesSized
         THEN [raised |-> "TypeError", all_issues |-> issues, log |-> lg]
         ELSE [raised |-> "",
               all_issues |-> list_extend(issues, result.value.issues),
               log |-> lg \cup {PageInfo(start, list_len(result.value.issues))}]
    ELSE [raised |-> "", all_issues |-> issues, log |-> lg]

(* the body of the as_completed loop for one future: start = futures[future], *)
(* data = future.result(), and the if/else                                    *)
merge_one(issues, lg, start, result) ==
    IF result.raised # ""
    THEN [raised |-> result.raised, all_issues |-> issues, log |-> lg]
    ELSE IF Truthy(result.value) /\ HasIssues(result.value)
    THEN IF ~result.value.issuesSized
         THEN [raised |-> "TypeError", all_issues |-> issues, log |-> lg]
         ELSE [raised |-> "",
               all_issues |-> list_extend(issues, result.value.issues),
               log |-> lg \cup {PageInfo(start, list_len(result.value.issues))}]
    ELSE [raised |-> "", all_issues |-> issues, log |-> lg \cup {PageWarn(start)}]

(* for future in as_completed(futures): the generator starts by collecting   *)
(* the futures that are already finished                                     *)
AsCompleted ==
    /\ pc = "as_completed"
    /\ found_finished' = Done
    /\ pc' = "merge"
    /\ UNCHANGED <<call, threads, fcfg, initial, total, offsets, tasks, futures, work_queue,
                   finished_futures, yielded, all_issues, requests, log, output, exit>>

(* the future as_completed yields next: one of those it found finished at    *)
(* the start, in the iteration order of a set, and after them the futures in *)
(* the order in which they finish                                            *)
next_future(f) ==
    IF found_finished # {}
    THEN f \in found_finished
    ELSE finished_futures # << >> /\ f = Head(finished_futures)

Merge(f) ==
    /\ pc = "merge"
    /\ f \in Done \ yielded
    /\ next_future(f)
    /\ yielded' = yielded \cup {f}
    /\ LET m == merge_one(all_issues, log, futures[f], tasks[f].result) IN
        /\ all_issues' = m.all_issues
        /\ log' = m.log
        /\ IF m.raised # ""
           THEN \* the exception leaves the loop and closes the generator
                /\ pc' = "unwind"
                /\ exit' = m.raised
                /\ found_finished' = {}
                /\ finished_futures' = << >>
           ELSE /\ found_finished' = found_finished \ {f}
                /\ finished_futures' = SelectSeq(finished_futures, LAMBDA g : g # f)
                /\ UNCHANGED <<pc, exit>>
    /\ UNCHANGED <<call, threads, fcfg, initial, total, offsets, tasks, futures, work_queue, requests, output>>

(* as_completed is exhausted and the with block ends normally *)
MergeEnd ==
    /\ pc = "merge"
    /\ yielded = DOMAIN tasks
    /\ pc' = "filter"
    /\ UNCHANGED <<call, threads, fcfg, initial, total, offsets, tasks, futures, work_queue, finished_futures, found_finished, yielded,
                   all_issues, requests, log, output, exit>>

(* an exception leaves the with block: the executor's shutdown(wait=True)    *)
(* returns once every submitted call has run, then the exception ends main() *)
ShutdownOnException ==
    /\ pc = "unwind"
    /\ Done = DOMAIN tasks
    /\ pc' = "aborted"
    /\ UNCHANGED <<call, threads, fcfg, initial, total, offsets, tasks, futures, work_queue, finished_futures, found_finished, yielded,
                   all_issues, requests, log, output, exit>>

-----------------------------------------------------------------------------
(* Steps 7 and 8 *)

Filter ==
    /\ pc = "filter"
    /\ all_issues' = history_filter(all_issues, expand, history_fields)
    /\ log' = IF expand # "" THEN log \cup {Filtering} ELSE log
    /\ pc' = "write"
    /\ UNCHANGED <<call, threads, fcfg, initial, total, offsets, tasks, futures, work_queue, finished_futures, found_finished, yielded,
                   requests, output, exit>>

(* json.dump into the output file, which may fail *)
Write(ok) ==
    /\ pc = "write"
    /\ IF ok
       THEN /\ output' = [written |-> TRUE, issues |-> all_issues]
            /\ log' = log \cup {AllFetched(list_len(all_issues)), Saved}
            /\ pc' = "done"
            /\ exit' = "ok"
       ELSE /\ output' = output
            /\ log' = log \cup {AllFetched(list_len(all_issues)), SaveFailed}
            /\ Abort("sys.exit(1)")
    /\ UNCHANGED <<call, threads, fcfg, initial, total, offsets, tasks, futures, work_queue, finished_futures, found_finished, yielded,
                   all_issues, requests>>

-----------------------------------------------------------------------------

Next ==
    \/ \E curl \in ProbeCurlResults : Probe(curl)
    \/ Submit
    \/ WorkerStart
    \/ \E f \in DOMAIN tasks :
        \E curl \in PageCurlResults(total, tasks[f].start_at, tasks[f].max_results) :
            WorkerFinish(f, curl)
    \/ AsCompleted
    \/ \E f \in DOMAIN tasks : Merge(f)
    \/ MergeEnd
    \/ ShutdownOnException
    \/ Filter
    \/ \E ok \in BOOLEAN : Write(ok)

Spec == Init /\ [][Next]_vars

-----------------------------------------------------------------------------
(* Step 7 on its own: the history filter applied to a list of issues given   *)
(* element by element, and applied again to its own result.                  *)

MaxHistories == 2
MaxItems == 2

(* the fields change items are about, and the sets of fields whose history  *)
(* fields_config.json can ask for                                           *)
FieldNames == {"status", "assignee"}
RequestedSets == (SUBSET FieldNames) \ {{}}

(* the items of a history entry: "to" holds the position of the item in the *)
(* entry as the server sent it                                              *)
ItemLists ==
    UNION { { [i \in 1..n |-> [field |-> fs[i], to |-> i]] : fs \in [1..n -> FieldNames] }
            : n \in 0..MaxItems }

(* items without a "field" key *)
OddItemLists ==
    { << [to |-> 1] >>, << [to |-> 1], [field |-> "status", to |-> 2] >> }

(* the history entries the server can put at position id of a changelog:    *)
(* with a list of items, or without the "items" key                         *)
Histories(id) ==
    { [id |-> id, items |-> items] : items \in ItemLists \cup OddItemLists }
        \cup { [id |-> id] }

(* the lists of up to MaxHistories entries, entry i at position i *)
RECURSIVE HistoryListsOf(_)
HistoryListsOf(n) ==
    IF n = 0 THEN { << >> }
    ELSE { Append(hs, h) : hs \in HistoryListsOf(n - 1), h \in Histories(n) }

HistoryLists == UNION { HistoryListsOf(n) : n \in 0..MaxHistories }

(* the changelogs of an issue, with and without the "histories" key *)
Changelogs ==
    { [total |-> Len(hs), histories |-> hs] : hs \in HistoryLists }
        \cup { [total |-> 0] }

(* the issues the filter is tried on: one with each changelog, one without  *)
(* a changelog; alone, and between two issues that are always the same      *)
Issues ==
    { [id |-> 1, changelog |-> c] : c \in Changelogs } \cup { [id |-> 1] }

PlainIssue == [id |-> 2]

MixedIssue ==
    [id |-> 3,
     changelog |-> [total |-> 2,
                    histories |-> << [id |-> 1, items |-> << [field |-> "status", to |-> 1],
                                                             [field |-> "assignee", to |-> 2] >>],
                                     [id |-> 2, items |-> << [field |-> "assignee", to |-> 1] >>] >>]]

IssueLists ==
    { << issue >> : issue \in Issues }
        \cup { << PlainIssue, issue, MixedIssue >> : issue \in Issues }

FilterCall(issues, hf) ==
    [op |-> "filter", step |-> "called", all_issues |-> issues, history_fields |-> hf,
     once |-> << >>, twice |-> << >>]

(* main() is not running: the variables of a run keep their first values *)
NoRun ==
    /\ Start
    /\ threads = 0
    /\ fcfg = CHOOSE fc \in FieldConfigs : expand_of(fc) = "changelog"

InitFilter ==
    /\ NoRun
    /\ \E issues \in IssueLists, hf \in RequestedSets :
          call = FilterCall(issues, hf)

(* for issue in all_issues: ... *)
FilterOnce ==
    /\ call.op = "filter"
    /\ call.step = "called"
    /\ call' = [call EXCEPT !.step = "once",
                            !.once = filter_issues(call.all_issues, call.history_fields)]
    /\ UNCHANGED <<pc, threads, fcfg, initial, total, offsets, tasks, futures, work_queue,
                   finished_futures, found_finished, yielded, all_issues, requests, log,
                   output, exit>>

(* the same loop over the list it has already been over *)
FilterTwice ==
    /\ call.op = "filter"
    /\ call.step = "once"
    /\ call' = [call EXCEPT !.step = "twice",
                            !.twice = filter_issues(call.once, call.history_fields)]
    /\ UNCHANGED <<pc, threads, fcfg, initial, total, offsets, tasks, futures, work_queue,
                   finished_futures, found_finished, yielded, all_issues, requests, log,
                   output, exit>>

NextFilter == FilterOnce \/ FilterTwice

SpecFilter == InitFilter /\ [][NextFilter]_vars

-----------------------------------------------------------------------------
(* Lines 89-93 on their own: the URL fetch_issues_slice builds.  A string   *)
(* is the sequence of its characters; the parts of the URL that are neither *)
(* arguments nor separators are written as one symbol each.                 *)

MaxStrLen == 3

(* the characters of jql and fields_param: a digit, the characters the     *)
(* query syntax reserves, and HIRAGANA LETTER A                               *)
Alphabet == {"2", " ", "=", "&", ",", "%", "+", "u3042"}

HexDigits == {"0", "1", "2", "3", "4", "5", "6", "7", "8", "9",
              "A", "B", "C", "D", "E", "F"}

(* s.encode('utf-8'): the bytes of a character, two hex digits each *)
Utf8(c) ==
    CASE c = "2"     -> << <<"3", "2">> >>
      [] c = " "     -> << <<"2", "0">> >>
      [] c = "="     -> << <<"3", "D">> >>
      [] c = "&"     -> << <<"2", "6">> >>
      [] c = ","     -> << <<"2", "C">> >>
      [] c = "%"     -> << <<"2", "5">> >>
      [] c = "+"     -> << <<"2", "B">> >>
      [] c = "dquote" -> << <<"2", "2">> >>
      [] c = "u3042" -> << <<"E", "3">>, <<"8", "1">>, <<"8", "2">> >>

(* the characters quote() never encodes: letters, digits, "_", ".", "-", "~" *)
AlwaysSafe == {"2", "c", "h", "a", "n", "g", "e", "l", "o"}

RECURSIVE percent_bytes(_)
percent_bytes(bytes) ==
    IF bytes = << >> THEN << >>
    ELSE <<"%", Head(bytes)[1], Head(bytes)[2]>> \o percent_bytes(Tail(bytes))

(* urllib.parse.quote(string, safe) *)
RECURSIVE quote(_, _)
quote(string, safe) ==
    IF string = << >> THEN << >>
    ELSE (IF Head(string) \in AlwaysSafe \cup safe
          THEN <<Head(string)>>
          ELSE percent_bytes(Utf8(Head(string))))
         \o quote(Tail(string), safe)

(* mutant of quote_param: "&" and "=" pass unencoded *)
quote_param_separators(string) == quote(string, {"&", "="})

(* quote(..., safe='') *)
quote_param(string) == quote(string, {})

(* f"{n}" for an int n >= 0 *)
Digit(d) == <<"0", "1", "2", "3", "4", "5", "6", "7", "8", "9">>[d + 1]

RECURSIVE format_int(_)
format_int(n) ==
    IF n < 10 THEN <<Digit(n)>> ELSE Append(format_int(n \div 10), Digit(n % 10))

(* lines 91-93 *)
build_url(jira_url, jql, fields_param, expand_param, start_at, max_results) ==
    LET url == <<jira_url, "/rest/api/2/search", "?", "jql", "=">> \o quote_param(jql)
                 \o <<"&", "startAt", "=">> \o format_int(start_at)
                 \o <<"&", "maxResults", "=">> \o format_int(max_results)
                 \o <<"&", "fields", "=">> \o quote_param(fields_param)
    IN  IF expand_param # << >>
        THEN url \o <<"&", "expand", "=">> \o quote_param(expand_param)
        ELSE url

RECURSIVE StringsOf(_)
StringsOf(n) ==
    IF n = 0 THEN { << >> }
    ELSE { Append(str, c) : str \in StringsOf(n - 1), c \in Alphabet }

Strings == UNION { StringsOf(n) : n \in 0..MaxStrLen }

Changelog == <<"c", "h", "a", "n", "g", "e", "l", "o", "g">>

UrlCall(jql, fields_param, expand_param, start_at, max_results) ==
    [op |-> "url", step |-> "called", jira_url |-> "https://your.jira.server",
     jql |-> jql, fields_param |-> fields_param, expand_param |-> expand_param,
     start_at |-> start_at, max_results |-> max_results, url |-> << >>]

(* the call of the probe or of the second page, for a query and a field     *)
(* list of MaxStrLen characters together                                    *)
InitUrl ==
    /\ NoRun
    /\ \E jql \in Strings, fields_param \in Strings,
          expand_param \in {<< >>, Changelog}, page \in BOOLEAN :
          /\ Len(jql) + Len(fields_param) <= MaxStrLen
          /\ call = IF page
                    THEN UrlCall(jql, fields_param, expand_param,
                                 max_per_request, max_per_request)
                    ELSE UrlCall(jql, fields_param, expand_param, 0, 1)

BuildUrl ==
    /\ call.op = "url"
    /\ call.step = "called"
    /\ call' = [call EXCEPT !.step = "built",
                            !.url = build_url(call.jira_url, call.jql, call.fields_param,
                                              call.expand_param, call.start_at,
                                              call.max_results)]
    /\ UNCHANGED <<pc, threads, fcfg, initial, total, offsets, tasks, futures, work_queue,
                   finished_futures, found_finished, yielded, all_issues, requests, log,
                   output, exit>>

NextUrl == BuildUrl

SpecUrl == InitUrl /\ [][NextUrl]_vars

-----------------------------------------------------------------------------
(* Vocabulary of the properties *)

CeilDiv(n, p) == (n + p - 1) \div p

(* the probe has been made *)
ProbeDone == requests # << >>

(* the probe has reported a total *)
TotalKnown == pc # "probe" /\ TotalIs(total) \in log

(* the page-requests have been submitted to the pool *)
PoolStarted == TotalKnown /\ pc # "pool" /\ exit # "ValueError"

(* main() has ended *)
Terminated == pc \in {"done", "aborted"}

(* the as_completed loop has run to its end *)
MergeComplete == PoolStarted /\ pc \in {"filter", "write", "done"}

(* the page of future f came back as a JSON object with an "issues" list *)
PageOk(f) ==
    /\ tasks[f].state = "done"
    /\ tasks[f].result.raised = ""
    /\ Truthy(tasks[f].result.value)
    /\ HasIssues(tasks[f].result.value)
    /\ tasks[f].result.value.issuesSized

PageFailed(f) == tasks[f].state = "done" /\ ~PageOk(f)

(* (a) transport failure: the curl process could not be run or exited non-zero *)
TransportFailure(f) ==
    PageFailed(f) /\ tasks[f].outcome \in {"launch failure", "non-zero exit"}

(* (b) decode failure: the body is not JSON or lacks the expected keys *)
DecodeFailure(f) ==
    PageFailed(f) /\ tasks[f].outcome \in {"not json", "json"}

AllPagesOk == \A f \in DOMAIN tasks : PageOk(f)

(* the number of issues the page of future f returned *)
PageCount(f) == list_len(tasks[f].result.value.issues)

RECURSIVE SumCounts(_)
SumCounts(k) == IF k = 0 THEN 0 ELSE PageCount(k) + SumCounts(k - 1)

(* the page of future f is the page of a static result set of total rows *)
StaticPage(f) ==
    PageCount(f) = ExpectedCount(total, tasks[f].start_at, tasks[f].max_results)

(* how often the page at offset o has been requested *)
FetchCount(o) ==
    Cardinality({k \in 1..Len(requests) :
                    requests[k].startAt = o /\ requests[k].maxResults = max_per_request})

-----------------------------------------------------------------------------
(* C1: for a probed total N >= 0 and page size 1000 the paginator generates   *)
(* exactly ceil(N / 1000) page-requests, at offsets 0, 1000, 2000, ...,       *)
(* (ceil(N / 1000) - 1) * 1000, one request per offset.                       *)
C1_PageRequests ==
    (TotalKnown /\ total >= 0) =>
        /\ Len(offsets) = CeilDiv(total, max_per_request)
        /\ \A k \in 1..Len(offsets) : offsets[k] = (k - 1) * max_per_request
        /\ PoolStarted =>
            /\ Len(tasks) = CeilDiv(total, max_per_request)
            /\ \A f \in 1..Len(tasks) :
                /\ tasks[f].start_at = (f - 1) * max_per_request
                /\ tasks[f].max_results = max_per_request
                /\ futures[f] = tasks[f].start_at

C1_Witness ==
    /\ PoolStarted
    /\ total = 2500
    /\ [f \in 1..Len(tasks) |-> tasks[f].start_at] = <<0, 1000, 2000>>

(* C2: whenever the probe request errors or its response is not a JSON        *)
(* document carrying the total-count field, the run aborts before any         *)
(* page-request is issued and no substitute total is used.                    *)
ProbeUsable ==
    /\ initial.raised = ""
    /\ initial.value.kind = "dict"
    /\ "total" \in initial.value.keys
    /\ initial.value.totalIsInt

C2_ProbeFailureIsFatal ==
    (ProbeDone /\ ~ProbeUsable) =>
        /\ pc = "aborted"
        /\ ~TotalKnown
        /\ tasks = << >>
        /\ Len(requests) = 1

(* C3: within one run it never happens that one failing page (transport or    *)
(* decode failure) is dropped with a warning while another failing page       *)
(* aborts the whole run.                                                      *)
DroppedWithWarning(f) ==
    /\ f \in yielded
    /\ TransportFailure(f) \/ DecodeFailure(f)
    /\ merge_one(EmptyList, {}, futures[f], tasks[f].result).raised = ""
    /\ PageWarn(tasks[f].start_at) \in log

AbortedTheRun(g) ==
    /\ g \in yielded
    /\ TransportFailure(g) \/ DecodeFailure(g)
    /\ merge_one(EmptyList, {}, futures[g], tasks[g].result).raised # ""
    /\ pc \in {"unwind", "aborted"}

C3_SinglePolicy ==
    ~ \E f, g \in DOMAIN tasks : DroppedWithWarning(f) /\ AbortedTheRun(g)

(* C4: once the page-requests are submitted, every one of them finishes and   *)
(* its result is collected by the merge loop before the output is written and *)
(* before the run ends; the failure of one page does not cut the collection   *)
(* of the others short.                                                       *)
C4_AllCollected ==
    /\ (PoolStarted /\ Terminated) => (Done = DOMAIN tasks /\ yielded = DOMAIN tasks)
    /\ output.written => yielded = DOMAIN tasks

(* C5: when every page-request succeeds, the number of issues in the          *)
(* aggregate equals the sum of the issue counts the pages returned and, when  *)
(* every page is the page of a static result set of N rows, equals N, in      *)
(* every completion order.                                                    *)
C5_AggregateCount ==
    (MergeComplete /\ AllPagesOk) =>
        /\ list_len(all_issues) = SumCounts(Len(tasks))
        /\ (\A f \in DOMAIN tasks : StaticPage(f)) => list_len(all_issues) = total
        /\ output.written => list_len(output.issues) = list_len(all_issues)

C5_Witness ==
    /\ pc = "done"
    /\ AllPagesOk
    /\ \A f \in DOMAIN tasks : StaticPage(f)
    /\ total = 2500
    /\ Len(tasks) = 3
    /\ output.issues[1].from = 2000
    /\ list_len(output.issues) = 2500

(* C6: when exactly one page-request fails with a transport error and all     *)
(* others succeed on a static result set, the run either aborts with a fatal  *)
(* error or completes with N minus the failed page's expected count issues    *)
(* and a logged warning naming the failed page's offset.                      *)
OnlyFailure(f) ==
    /\ TransportFailure(f)
    /\ \A g \in DOMAIN tasks \ {f} : PageOk(g) /\ StaticPage(g)

C6_OneTransportFailure ==
    \A f \in DOMAIN tasks :
        (PoolStarted /\ Terminated /\ OnlyFailure(f)) =>
            \/ pc = "aborted" /\ exit # "ok" /\ ~output.written
            \/ /\ pc = "done"
               /\ list_len(output.issues) =
                      total - ExpectedCount(total, tasks[f].start_at, tasks[f].max_results)
               /\ PageWarn(tasks[f].start_at) \in log

C6_Witness ==
    /\ pc = "done"
    /\ total = 2500
    /\ \E f \in DOMAIN tasks :
        /\ OnlyFailure(f)
        /\ tasks[f].start_at = 1000
        /\ tasks[f].outcome = "non-zero exit"
    /\ list_len(output.issues) = 1500
    /\ PageWarn(1000) \in log

(* C7: in no run where some page-request failed does the program announce     *)
(* that all items were fetched and finish as a normal, complete run.          *)
C7_CompleteOnlyIfAllOk ==
    ~ /\ \E f \in DOMAIN tasks : PageFailed(f)
      /\ pc = "done"
      /\ exit = "ok"
      /\ AllFetched(list_len(all_issues)) \in log
      /\ Saved \in log

(* C8: if the probed total is 0, no page-request is generated or dispatched   *)
(* and the aggregate written to the output is the empty list.                 *)
C8_EmptyTotal ==
    (TotalKnown /\ total = 0) =>
        /\ offsets = << >>
        /\ tasks = << >>
        /\ work_queue = << >>
        /\ Len(requests) = 1
        /\ list_items(all_issues) = << >>
        /\ output.written => list_items(output.issues) = << >>

C8_Witness ==
    /\ TotalKnown
    /\ total = 0
    /\ ProbeUsable
    /\ pc = "done"
    /\ output.written
    /\ list_items(output.issues) = << >>

(* C9: at every point of the pagination phase the number of page fetches in   *)
(* flight is at most the configured thread count.                             *)
C9_PoolBound == Cardinality(Running) <= threads

C9_Witness ==
    /\ threads >= 2
    /\ Cardinality(Running) = threads
    /\ work_queue # << >>

(* C10: each computed offset is fetched exactly once, whether the fetch       *)
(* succeeds or fails: a page is requested when a worker takes its call and    *)
(* never again, and no page-request exists that was not submitted at the      *)
(* start.                                                                     *)
C10_FetchedOnce ==
    /\ \A f \in DOMAIN tasks :
        FetchCount(tasks[f].start_at) = IF tasks[f].state = "queued" THEN 0 ELSE 1
    /\ Len(requests) <= 1 + Len(tasks)
    /\ PoolStarted => Len(tasks) = Len(offsets)
    /\ (PoolStarted /\ Terminated) =>
        \A k \in 1..Len(offsets) : FetchCount(offsets[k]) = 1

C10_Witness ==
    /\ PoolStarted
    /\ Terminated
    /\ Len(offsets) = 3
    /\ \E f \in DOMAIN tasks : PageFailed(f)
    /\ \A k \in 1..Len(offsets) : FetchCount(offsets[k]) = 1

(* C11: the aggregate is written by the single collector only: a step of a    *)
(* worker (a call starting or finishing) never changes it, every change       *)
(* during the pagination phase is the merge loop appending the whole page of  *)
(* the one future it has just taken, and the only other change is step 7,     *)
(* made when no worker is left.                                               *)
C11_SingleCollector ==
    [][ /\ tasks' # tasks => all_issues' = all_issues
        /\ all_issues' # all_issues =>
            \/ /\ pc = "merge"
               /\ tasks' = tasks
               /\ \E f \in Done \ yielded :
                    /\ yielded' = yielded \cup {f}
                    /\ all_issues' = all_issues \o tasks[f].result.value.issues
            \/ /\ pc = "filter"
               /\ Done = DOMAIN tasks
               /\ work_queue = << >> ]_vars

C11_Witness ==
    /\ pc = "merge"
    /\ Running # {}
    /\ yielded # {}
    /\ all_issues # EmptyList

(***************************************************************************)
(* C12: results are merged in completion order and each one is tagged with *)
(* its originating offset: every pass of the merge loop handles the        *)
(* earliest-finished future not yet handled, the offset it logs for that   *)
(* page is the startAt of the request that produced it, a successful page  *)
(* is appended to the aggregate and a failed one leaves it alone; so that  *)
(* when the run ends the aggregate is the concatenation of all successful  *)
(* pages in the order in which they completed.                             *)
(***************************************************************************)
C12_CompletionOrder ==
    /\ [][ yielded' # yielded =>
            \E f \in Done \ yielded :
                /\ yielded' = yielded \cup {f}
                /\ f = Head(finished_futures)
                /\ IF PageOk(f)
                   THEN /\ all_issues' = all_issues \o tasks[f].result.value.issues
                        /\ log' = log \cup {PageInfo(tasks[f].start_at, PageCount(f))}
                   ELSE /\ all_issues' = all_issues
                        /\ log' \subseteq log \cup {PageWarn(tasks[f].start_at)} ]_vars
    /\ [](Terminated /\ PoolStarted =>
            \A f \in DOMAIN tasks : PageOk(f) => f \in yielded)

(***************************************************************************)
(* C13: in a consistent server state (each page returns at most the rows   *)
(* that exist from its offset, capped at P), at every point of the merge   *)
(* the number of issues accumulated from successful pages does not exceed  *)
(* the total reported by the count probe.                                  *)
(***************************************************************************)
(* the page of future f holds no more rows than the probe's result set has *)
(* from its offset on, and no more than max_results                        *)
ConsistentPage(f) ==
    PageOk(f) =>
        PageCount(f) <= ExpectedCount(total, tasks[f].start_at, tasks[f].max_results)

ConsistentSoFar == \A f \in yielded : ConsistentPage(f)

C13_WithinTotal ==
    (PoolStarted /\ ConsistentSoFar) => list_len(all_issues) <= total

(* a run of several pages, one of them cut short, every page merged *)
C13_Witness ==
    /\ pc = "merge"
    /\ Len(offsets) > 1
    /\ yielded = DOMAIN tasks
    /\ ConsistentSoFar
    /\ AllPagesOk
    /\ \E f \in DOMAIN tasks : ~StaticPage(f)
    /\ list_len(all_issues) > max_per_request

(***************************************************************************)
(* C14: the count probe is a single request capped at zero or one result   *)
(* rows, and it finishes before any page-request is dispatched: every run  *)
(* issues exactly one probe (the first request of the run), and no page    *)
(* fetch starts before the probe's total is known.                         *)
(***************************************************************************)
IsProbe(r) == r.startAt = 0 /\ r.maxResults \in {0, 1}

IsPageRequest(r) == r.maxResults = max_per_request /\ r.startAt % max_per_request = 0

C14_ProbeFirst ==
    /\ pc # "probe" => requests # << >>
    /\ requests # << >> => IsProbe(requests[1])
    /\ Cardinality({i \in DOMAIN requests : IsProbe(requests[i])}) <= 1
    /\ \A i \in DOMAIN requests :
          i > 1 => /\ IsPageRequest(requests[i])
                   /\ TotalKnown
                   /\ initial.raised = "" /\ Truthy(initial.value)
    /\ (\E f \in DOMAIN tasks : tasks[f].state # "queued") => TotalKnown

(* pages are being fetched, after a probe that reported more than one page *)
C14_Witness ==
    /\ pc = "merge"
    /\ Len(requests) > 2
    /\ Running # {}
    /\ total > max_per_request

(***************************************************************************)
(* C15: history filtering result: for every issue carrying a history block *)
(* and every requested-field set, after filtering the block holds exactly  *)
(* the original entries that had at least one change item for a requested  *)
(* field, in their original relative order, each holding exactly its       *)
(* original items whose field is requested, in original order; no retained *)
(* entry has zero items and no retained item is for a non-requested field. *)
(***************************************************************************)
(* the item is a change of a requested field *)
Requested(item, hf) == "field" \in DOMAIN item /\ item.field \in hf

ItemsOf(hist) == get(hist, "items", << >>)

EntriesOf(issue) == get(issue.changelog, "histories", << >>)

Range(seq) == {seq[i] : i \in DOMAIN seq}

(* an entry of the input stands at the position its id names, and an item  *)
(* at the position its "to" names: ids that grow along a list say that the *)
(* list keeps the original order                                           *)
FilteredBlock(before, after, hf) ==
    LET orig == EntriesOf(before)
        kept == EntriesOf(after)
    IN  /\ DOMAIN after = DOMAIN before \cup {"changelog"}
        /\ after.id = before.id
        /\ after.changelog.total = before.changelog.total
        /\ {h.id : h \in Range(kept)}
               = {h.id : h \in {g \in Range(orig) :
                                   \E item \in Range(ItemsOf(g)) : Requested(item, hf)}}
        /\ \A i, j \in DOMAIN kept : i < j => kept[i].id < kept[j].id
        /\ \A j \in DOMAIN kept :
              LET hist  == orig[kept[j].id]
                  items == ItemsOf(kept[j])
              IN  /\ DOMAIN kept[j] = DOMAIN hist
                  /\ items # << >>
                  /\ Range(items) = {item \in Range(ItemsOf(hist)) : Requested(item, hf)}
                  /\ \A m, n \in DOMAIN items : m < n => items[m].to < items[n].to
                  /\ \A m \in DOMAIN items : Requested(items[m], hf)

C15_FilterResult ==
    (call.op = "filter" /\ call.step # "called") =>
        \A k \in DOMAIN call.all_issues :
            "changelog" \in DOMAIN call.all_issues[k] =>
                FilteredBlock(call.all_issues[k], call.once[k], call.history_fields)

(* a block of two entries: one is dropped, the other loses one of its two  *)
(* items                                                                   *)
C15_Witness ==
    /\ call.op = "filter"
    /\ call.step = "once"
    /\ Len(call.all_issues) = 1
    /\ "changelog" \in DOMAIN call.all_issues[1]
    /\ Len(EntriesOf(call.all_issues[1])) = 2
    /\ Len(EntriesOf(call.once[1])) = 1
    /\ Len(ItemsOf(EntriesOf(call.once[1])[1])) = 1
    /\ EntriesOf(call.once[1])[1].id = 2
    /\ Len(ItemsOf(EntriesOf(call.all_issues[1])[2])) = 2

(***************************************************************************)
(* C16: history filtering is idempotent: for every aggregate issue list    *)
(* and every requested-field set, applying the filter to an already-       *)
(* filtered list yields the same list as applying it once.                 *)
(***************************************************************************)
C16_Idempotent ==
    (call.op = "filter" /\ call.step = "twice") => call.twice = call.once

(* the filter has been applied twice to a list the first pass changed *)
C16_Witness ==
    /\ call.op = "filter"
    /\ call.step = "twice"
    /\ call.once # call.all_issues
    /\ Len(call.all_issues) > 1

(***************************************************************************)
(* C17: history filtering leaves every issue that has no history block     *)
(* unchanged: such an issue is identical before and after the filter, and  *)
(* no history block is added to it.                                        *)
(***************************************************************************)
C17_NoBlockUntouched ==
    (call.op = "filter" /\ call.step # "called") =>
        \A k \in DOMAIN call.all_issues :
            "changelog" \notin DOMAIN call.all_issues[k] =>
                /\ call.once[k] = call.all_issues[k]
                /\ "changelog" \notin DOMAIN call.once[k]

(* a list in which issues without a block stand next to one the filter     *)
(* has changed                                                             *)
C17_Witness ==
    /\ call.op = "filter"
    /\ call.step = "once"
    /\ Len(call.all_issues) > 1
    /\ "changelog" \notin DOMAIN call.all_issues[1]
    /\ "changelog" \notin DOMAIN call.all_issues[2]
    /\ call.once # call.all_issues

(***************************************************************************)
(* C18: the query string and the field list are percent-encoded before     *)
(* being concatenated into the request URL, and the encoding round-trips:  *)
(* for every query string and field list (including ones with spaces, "=", *)
(* "&" and ","), decoding the encoded jql and fields parameters of the     *)
(* built URL yields the original strings, so reserved characters in them   *)
(* never split or add URL parameters.                                      *)
(***************************************************************************)
(* what the receiver of the URL does: the query is what follows the first  *)
(* "?", its parameters are separated by "&", a parameter's name ends at    *)
(* its first "=", and names and values are percent-decoded                 *)
Has(seq, c) == \E i \in DOMAIN seq : seq[i] = c

FirstIndex(seq, c) == CHOOSE i \in DOMAIN seq : seq[i] = c /\ \A j \in 1..(i - 1) : seq[j] # c

After(seq, i) == SubSeq(seq, i + 1, Len(seq))

RECURSIVE Split(_, _)
Split(seq, sep) ==
    IF ~Has(seq, sep) THEN <<seq>>
    ELSE <<SubSeq(seq, 1, FirstIndex(seq, sep) - 1)>>
             \o Split(After(seq, FirstIndex(seq, sep)), sep)

IsPrefix(p, seq) == Len(p) <= Len(seq) /\ SubSeq(seq, 1, Len(p)) = p

Decodable == Alphabet \cup {"dquote"}

(* percent-decoding, then UTF-8 decoding with U+FFFD for what is not the   *)
(* encoding of a character; "+" stands for a space                         *)
RECURSIVE unquote_plus(_)
unquote_plus(seq) ==
    IF seq = << >> THEN << >>
    ELSE IF Head(seq) = "+" THEN <<" ">> \o unquote_plus(Tail(seq))
    ELSE IF Head(seq) = "%" /\ Len(seq) >= 3 /\ seq[2] \in HexDigits /\ seq[3] \in HexDigits
    THEN IF \E c \in Decodable : IsPrefix(percent_bytes(Utf8(c)), seq)
         THEN LET c == CHOOSE d \in Decodable : IsPrefix(percent_bytes(Utf8(d)), seq)
              IN  <<c>> \o unquote_plus(After(seq, Len(percent_bytes(Utf8(c)))))
         ELSE <<"ufffd">> \o unquote_plus(After(seq, 3))
    ELSE <<Head(seq)>> \o unquote_plus(Tail(seq))

parse_param(seq) ==
    IF Has(seq, "=")
    THEN [name  |-> unquote_plus(SubSeq(seq, 1, FirstIndex(seq, "=") - 1)),
          value |-> unquote_plus(After(seq, FirstIndex(seq, "=")))]
    ELSE [name |-> unquote_plus(seq), value |-> << >>]

parse_query(url) ==
    LET params == Split(After(url, FirstIndex(url, "?")), "&")
    IN  [i \in DOMAIN params |-> parse_param(params[i])]

Param(name, value) == [name |-> <<name>>, value |-> value]

C18_EncodingRoundTrips ==
    (call.op = "url" /\ call.step = "built") =>
        /\ Has(call.url, "?")
        /\ parse_query(call.url) =
              << Param("jql", call.jql),
                 Param("startAt", format_int(call.start_at)),
                 Param("maxResults", format_int(call.max_results)),
                 Param("fields", call.fields_param) >>
              \o (IF call.expand_param # << >>
                  THEN << Param("expand", call.expand_param) >>
                  ELSE << >>)

(* a query with a space, "=" and "&" next to a field list with "," *)
C18_Witness ==
    /\ call.op = "url"
    /\ call.step = "built"
    /\ Has(call.jql, "&") /\ Has(call.jql, "=")
    /\ Has(call.fields_param, ",")
    /\ Has(call.url, "%")
    /\ call.expand_param # << >>

(***************************************************************************)
(* C19: the content of the aggregate does not depend on scheduling: for    *)
(* fixed server responses per offset, any two runs that differ only in     *)
(* worker count or in the completion order of the page fetches produce     *)
(* aggregates that are equal as multisets of issues (they may differ only  *)
(* in order), and the same set of offsets is reported as failed.           *)
(*                                                                         *)
(* One of the runs that get the responses tasks[1].result, ...,            *)
(* tasks[n].result is the run of one worker whose loop receives the pages  *)
(* in the order they were submitted; every run with these responses is     *)
(* compared with that one, when it has left the merge loop.                *)
(***************************************************************************)
(* the aggregate and the log of the run that merges futures 1..k in the    *)
(* order of submission                                                     *)
RECURSIVE merge_in_order(_)
merge_in_order(k) ==
    IF k = 0 THEN [raised |-> "", all_issues |-> EmptyList, log |-> {}]
    ELSE LET before == merge_in_order(k - 1)
         IN  IF before.raised # "" THEN before
             ELSE merge_one(before.all_issues, before.log, futures[k], tasks[k].result)

(* the windows of two lists lie in the pages of different offsets, so the  *)
(* lists hold the same issues equally often iff they hold the same         *)
(* non-empty windows equally often                                         *)
Occurrences(lst, w) == Cardinality({i \in DOMAIN lst : lst[i] = w})

SameIssues(a, b) ==
    \A w \in Range(a) \cup Range(b) :
        w.count > 0 => Occurrences(a, w) = Occurrences(b, w)

(* the offsets reported as failed *)
Warned(lg) == {e.start : e \in {d \in lg : d.level = "WARN"}}

LoopLeft == PoolStarted /\ pc \in {"unwind", "filter"} /\ Done = DOMAIN tasks

C19_ScheduleIndependent ==
    LoopLeft =>
        /\ SameIssues(all_issues, merge_in_order(Len(tasks)).all_issues)
        /\ Warned(log) = Warned(merge_in_order(Len(tasks)).log)

(***************************************************************************)
(* C20: change history is requested and filtered under the same condition: *)
(* the expand=changelog parameter is sent on the probe and on every        *)
(* page-request if and only if at least one field descriptor has its       *)
(* include-history flag set, and the history filter runs over the          *)
(* aggregate (before the output is written) if and only if that parameter  *)
(* was sent; when no descriptor asks for history, no issue is modified     *)
(* after the merge.                                                        *)
(***************************************************************************)
HistoryAsked == \E i \in DOMAIN fcfg : fcfg[i].downloadHistory

(* step 7 is behind the run *)
FilterStepPassed == PoolStarted /\ (pc \in {"write", "done"} \/ AllFetched(list_len(all_issues)) \in log)

(* every window of the list has been through the filter for the fields     *)
(* whose history the descriptors ask for                                    *)
FilteredList(lst) ==
    \A w \in Range(lst) : w.filtered /\ w.history_fields = history_fields_of(fcfg)

(* the list is made of pages as the loop received them from the workers *)
AsMerged(lst) ==
    \A w \in Range(lst) : \E f \in yielded : tasks[f].result.value.issues = << w >>

C20_HistoryCondition ==
    /\ \A i \in DOMAIN requests :
          /\ requests[i].expand \in {"", "changelog"}
          /\ requests[i].expand = "changelog" <=> HistoryAsked
    /\ Filtering \in log <=> (FilterStepPassed /\ HistoryAsked)
    /\ IF FilterStepPassed /\ HistoryAsked
       THEN FilteredList(all_issues)
       ELSE AsMerged(all_issues)
    /\ output.written =>
          /\ output.issues = all_issues
          /\ IF HistoryAsked THEN FilteredList(output.issues) ELSE AsMerged(output.issues)

(* a run with history and a run without, both with their output written *)
C20_Witness ==
    /\ output.written
    /\ Len(requests) > 2
    /\ list_len(output.issues) > max_per_request
    /\ HistoryAsked
    /\ Filtering \in log

C20_WitnessNoHistory ==
    /\ output.written
    /\ Len(requests) > 2
    /\ list_len(output.issues) > max_per_request
    /\ ~HistoryAsked

====
